---- MODULE Spec2Model ----
(***************************************************************************)
(* LedgerOne ledger validation (src/src/ledger_validation.py).             *)
(*                                                                         *)
(* The state is the DuckDB store the validator reads (the database file,   *)
(* the ledger table, its columns and its rows) and the position of main()  *)
(* in its run: the connection, the loop over the ten checks, the two       *)
(* informational reports, the close of the connection and the exit.        *)
(* The store is never written by the validator: its variables are set by   *)
(* Init and left unchanged by every action.                                *)
(***************************************************************************)
EXTENDS Integers, Sequences, FiniteSets, TLC

VARIABLES
    dbFile,      \* "absent" | "corrupt" | "ok": DB_PATH on disk
    tables,      \* names of the tables of the database
    cols,        \* column names of ledger_entries
    ledger,      \* rows of ledger_entries (a multiset, kept as a sorted sequence)
    pc,          \* position of main()
    con,         \* "none" | "open" | "closed": the connection
    i,           \* index in `checks` of the next check to run
    results,     \* CheckResults produced so far, in order
    failures,    \* main()'s failure counter
    out,         \* what has been printed, in order
    eventTotals, \* rows printed by report_event_totals
    balances,    \* what report_balance_summary printed
    exitCode,    \* {} while running, else {the process exit status}
    reported     \* {the failure count printed by the Result section}, or {}

store == <<dbFile, tables, cols, ledger>>
vars == <<dbFile, tables, cols, ledger, pc, con, i, results, failures, out,
          eventTotals, balances, exitCode, reported>>

----------------------------------------------------------------------------
\* Bounds of the model

\* Largest number of rows of ledger_entries when main() is run in one step
\* on a well-formed store (SpecChecks)
MaxRows == 2

\* Largest number of rows of ledger_entries when main() is followed step by
\* step over every shape of store (Spec)
MaxStoreRows == 1

----------------------------------------------------------------------------
\* Configuration (ledger_validation.py, "Config")

LEDGER_TABLE == "ledger_entries"

EXPECTED_EVENT_POSTING ==
    [DEPOSIT |-> "CREDIT", PURCHASE |-> "DEBIT", FEE |-> "DEBIT", REFUND |-> "CREDIT"]

REQUIRED_COLUMNS ==
    <<"ledger_entry_id", "event_id", "event_ts", "user_id", "account_id",
      "event_type", "posting_type", "amount", "currency", "reference_id">>

RequiredColumnSet == {REQUIRED_COLUMNS[k] : k \in 1..Len(REQUIRED_COLUMNS)}

\* SQL NULL in reference_id
Null == "NULL"

\* Python None for CheckResult.preview: the code never builds an empty preview
NoPreview == {}

----------------------------------------------------------------------------
\* The rows the model draws ledgers from

\* event_type values: the four mapped ones and one the mapping does not know
EventTypes == <<"DEPOSIT", "PURCHASE", "FEE", "REFUND", "INVEST">>

\* posting_type values: the two allowed ones and one outside the domain
PostingTypes == <<"CREDIT", "DEBIT", "XFER">>

\* amount values: one non-positive, one positive
Amounts == <<-5, 20>>

\* reference_id values: NULL, the PURCHASE rows' event_id, the FEE rows' event_id
References == <<Null, "e1", "e3">>

\* event_id and account_id of a row of the model, by its event_type
EventIdOf(t) ==
    CASE t = "PURCHASE" -> "e1"
      [] t = "REFUND" -> "e2"
      [] t = "FEE" -> "e3"
      [] t = "DEPOSIT" -> "e4"
      [] OTHER -> "e5"

AccountOf(t) == IF t \in {"DEPOSIT", "INVEST"} THEN "a2" ELSE "a1"

Posting(t, p, a, r) ==
    [event_id |-> EventIdOf(t), account_id |-> AccountOf(t), event_type |-> t,
     posting_type |-> p, amount |-> a, reference_id |-> r]

NumPostings == Len(EventTypes) * Len(PostingTypes) * Len(Amounts) * Len(References)

\* The k-th row of the catalogue, k in 0..NumPostings-1
PostingAt(k) ==
    LET r == k % Len(References)
        k1 == k \div Len(References)
        a == k1 % Len(Amounts)
        k2 == k1 \div Len(Amounts)
        p == k2 % Len(PostingTypes)
        t == k2 \div Len(PostingTypes)
    IN Posting(EventTypes[t + 1], PostingTypes[p + 1], Amounts[a + 1], References[r + 1])

\* A table is a multiset of rows: one sequence stands for each multiset, the
\* one listing its rows in catalogue order.
IsSorted(idx) == \A k \in 1..(Len(idx) - 1) : idx[k] <= idx[k + 1]

LedgerOf(idx) == [k \in 1..Len(idx) |-> PostingAt(idx[k])]

\* l is a table of at most max rows
IsLedger(l, max) ==
    \E n \in 0..max : \E idx \in [1..n -> 0..(NumPostings - 1)] :
        IsSorted(idx) /\ l = LedgerOf(idx)

----------------------------------------------------------------------------
\* SQL helpers

\* COUNT(*) ... WHERE: the number of rows selected, S the set of their positions
Count(S) == Cardinality(S)

RECURSIVE SumSeq(_)
SumSeq(s) == IF s = <<>> THEN 0 ELSE Head(s) + SumSeq(Tail(s))

\* SUM(...) of one term per row
Sum(terms) == SumSeq(terms)

RowSet(l) == {l[k] : k \in 1..Len(l)}

\* head(n) / LIMIT n of an unordered result
Limit(S, n) ==
    IF Cardinality(S) <= n THEN S
    ELSE CHOOSE T \in SUBSET S : Cardinality(T) = n

\* What con.execute raises for a query over LEDGER_TABLE that reads `used`
\* columns of the store (tbls, cs); NoError when it runs.
NoError == "ok"
QueryError(tbls, cs, used) ==
    IF LEDGER_TABLE \notin tbls THEN "Catalog Error: Table with name ledger_entries does not exist!"
    ELSE IF ~(used \subseteq cs) THEN "Binder Error: Referenced column not found in FROM clause!"
    ELSE NoError

CheckResult(n, p, d, pv) == [name |-> n, passed |-> p, details |-> d, preview |-> pv]

----------------------------------------------------------------------------
\* Checks: each is the CheckResult the function returns when its query runs

check_table_exists(tbls) ==
    CheckResult("Ledger table 'ledger_entries' exists",
                LEDGER_TABLE \in tbls,
                <<"Found tables: ", tbls>>,
                NoPreview)

check_required_columns(cs) ==
    LET missing == SelectSeq(REQUIRED_COLUMNS, LAMBDA c : c \notin cs)
    IN CheckResult("Ledger schema has required columns",
                   Len(missing) = 0,
                   IF missing # <<>> THEN <<"Missing columns: ", missing>>
                                     ELSE <<"All required columns present.", <<>>>>,
                   NoPreview)

\* Mutant: the row count is compared with >= 0
check_row_count_AllowsEmpty(l) ==
    LET n == Len(l)
    IN CheckResult("Ledger has at least 1 row", n >= 0, <<"Row count = ", n>>, NoPreview)

check_row_count(l) ==
    LET n == Len(l)
    IN CheckResult("Ledger has at least 1 row", n > 0, <<"Row count = ", n>>, NoPreview)

check_non_positive_amounts(l) ==
    LET bad == Count({k \in 1..Len(l) : l[k].amount <= 0})
    IN CheckResult("All amounts are positive (amount > 0)",
                   bad = 0, <<"Non-positive amounts = ", bad>>, NoPreview)

check_posting_type_values(l) ==
    LET values == {r.posting_type : r \in RowSet(l)}
        allowed == {"CREDIT", "DEBIT"}
        bad == values \ allowed
    IN CheckResult("posting_type only contains CREDIT/DEBIT",
                   Cardinality(bad) = 0,
                   IF bad = {} THEN <<"Distinct posting_type values = ", values>>
                               ELSE <<"Invalid values: ", bad>>,
                   NoPreview)

\* SELECT event_type, posting_type, COUNT(*) ... GROUP BY 1,2
EventPostingGroups(l) ==
    {[event_type |-> r.event_type, posting_type |-> r.posting_type,
      cnt |-> Count({k \in 1..Len(l) : /\ l[k].event_type = r.event_type
                                         /\ l[k].posting_type = r.posting_type})] :
     r \in RowSet(l)}

ConsistencyPreviewRows == 12

\* Mutant: only CREDIT and DEBIT rows are compared with the mapping
check_event_posting_consistency_DomainOnly(l) ==
    LET mismatches ==
            {g \in EventPostingGroups(l) :
                /\ g.event_type \in DOMAIN EXPECTED_EVENT_POSTING
                /\ g.posting_type \in {"CREDIT", "DEBIT"}
                /\ g.posting_type # EXPECTED_EVENT_POSTING[g.event_type]}
    IN CheckResult("Event types map to expected posting_type (DEPOSIT=CREDIT, PURCHASE=DEBIT, FEE=DEBIT, REFUND=CREDIT)",
                   mismatches = {},
                   IF mismatches = {} THEN <<"Distribution looks consistent.", 0>>
                                      ELSE <<"Found event_type/posting_type mismatches.", 0>>,
                   IF mismatches # {} THEN Limit(mismatches, ConsistencyPreviewRows)
                                      ELSE NoPreview)

check_event_posting_consistency(l) ==
    LET mismatches ==
            {g \in EventPostingGroups(l) :
                /\ g.event_type \in DOMAIN EXPECTED_EVENT_POSTING
                /\ g.posting_type # EXPECTED_EVENT_POSTING[g.event_type]}
    IN CheckResult("Event types map to expected posting_type (DEPOSIT=CREDIT, PURCHASE=DEBIT, FEE=DEBIT, REFUND=CREDIT)",
                   mismatches = {},
                   IF mismatches = {} THEN <<"Distribution looks consistent.", 0>>
                                      ELSE <<"Found event_type/posting_type mismatches.", 0>>,
                   IF mismatches # {} THEN Limit(mismatches, ConsistencyPreviewRows)
                                      ELSE NoPreview)

check_fee_reference_present(l) ==
    LET bad == Count({k \in 1..Len(l) : l[k].event_type = "FEE" /\ l[k].reference_id = Null})
    IN CheckResult("FEE entries have reference_id (linked to a purchase)",
                   bad = 0, <<"Fees missing reference_id = ", bad>>, NoPreview)

check_refund_reference_present(l) ==
    LET bad == Count({k \in 1..Len(l) : l[k].event_type = "REFUND" /\ l[k].reference_id = Null})
    IN CheckResult("REFUND entries have reference_id (linked to a purchase)",
                   bad = 0, <<"Refunds missing reference_id = ", bad>>, NoPreview)

\* ON r.reference_id = p.event_id: a NULL reference_id equals nothing
JoinsOn(r, p) == r.reference_id # Null /\ r.reference_id = p.event_id

\* Mutant: JOIN instead of LEFT JOIN, no row has p.event_id IS NULL
check_refund_links_to_purchase_InnerJoin(l) ==
    LET bad == Count({k \in 1..Len(l) : FALSE})
    IN CheckResult("REFUND reference_id points to an existing PURCHASE event_id",
                   bad = 0, <<"Refunds missing a matching purchase = ", bad>>, NoPreview)

\* Mutant: the join drops AND p.event_type = 'PURCHASE'
check_refund_links_to_purchase_AnyEvent(l) ==
    LET bad == Count({k \in 1..Len(l) :
                   /\ l[k].event_type = "REFUND"
                   /\ ~\E p \in RowSet(l) : JoinsOn(l[k], p)})
    IN CheckResult("REFUND reference_id points to an existing PURCHASE event_id",
                   bad = 0, <<"Refunds missing a matching purchase = ", bad>>, NoPreview)

check_refund_links_to_purchase(l) ==
    LET bad == Count({k \in 1..Len(l) :
                   /\ l[k].event_type = "REFUND"
                   /\ ~\E p \in RowSet(l) : JoinsOn(l[k], p) /\ p.event_type = "PURCHASE"})
    IN CheckResult("REFUND reference_id points to an existing PURCHASE event_id",
                   bad = 0, <<"Refunds missing a matching purchase = ", bad>>, NoPreview)

AmountMismatchRows == 50

check_refund_amount_matches_purchase(l) ==
    LET mismatch_df ==
            {[refund_event_id |-> r.event_id, purchase_event_id |-> r.reference_id,
              refund_amount |-> r.amount, purchase_amount |-> p.amount,
              account_id |-> r.account_id] :
             <<r, p>> \in {x \in RowSet(l) \X RowSet(l) :
                              /\ JoinsOn(x[1], x[2])
                              /\ x[1].event_type = "REFUND"
                              /\ x[2].event_type = "PURCHASE"
                              /\ x[1].amount # x[2].amount}}
        shown == Limit(mismatch_df, AmountMismatchRows)
    IN CheckResult("REFUND amount equals PURCHASE amount for referenced purchase",
                   shown = {},
                   IF shown = {} THEN <<"No mismatches found.", 0>>
                                 ELSE <<"Refund amount mismatches found.", 0>>,
                   IF shown # {} THEN shown ELSE NoPreview)

----------------------------------------------------------------------------
\* Informational reports

\* SELECT event_type, posting_type, COUNT(*), SUM(amount) ... GROUP BY 1,2
report_event_totals(l) ==
    {[event_type |-> g.event_type, posting_type |-> g.posting_type, cnt |-> g.cnt,
      total_amount |-> Sum([k \in 1..Len(l) |->
                              IF l[k].event_type = g.event_type
                                 /\ l[k].posting_type = g.posting_type
                              THEN l[k].amount ELSE 0])] :
     g \in EventPostingGroups(l)}

\* Mutant: only DEBIT rows are subtracted
SignedAmountDebitOnly(r) ==
    IF r.posting_type = "CREDIT" THEN r.amount
    ELSE IF r.posting_type = "DEBIT" THEN -r.amount ELSE 0

\* CASE WHEN posting_type = 'CREDIT' THEN amount ELSE -amount END
SignedAmount(r) == IF r.posting_type = "CREDIT" THEN r.amount ELSE -r.amount

\* SELECT account_id, SUM(CASE ...) AS balance ... GROUP BY 1
AccountBalances(l) ==
    {[account_id |-> a,
      balance |-> Sum([k \in 1..Len(l) |->
                         IF l[k].account_id = a THEN SignedAmount(l[k]) ELSE 0])] :
     a \in {r.account_id : r \in RowSet(l)}}

BalanceListRows == 10

\* ORDER BY balance ASC LIMIT n (asc) or ORDER BY balance DESC LIMIT n
Lowest(B, n) ==
    IF Cardinality(B) <= n THEN B
    ELSE CHOOSE T \in SUBSET B :
            /\ Cardinality(T) = n
            /\ \A x \in T, y \in B \ T : x.balance <= y.balance

Highest(B, n) ==
    IF Cardinality(B) <= n THEN B
    ELSE CHOOSE T \in SUBSET B :
            /\ Cardinality(T) = n
            /\ \A x \in T, y \in B \ T : x.balance >= y.balance

\* MIN, AVG, MAX are NULL over no rows: {} here, else {value}; AVG is kept as
\* the pair <<sum, count>>
report_balance_summary(l) ==
    LET B == AccountBalances(l)
        vals == {b.balance : b \in B}
    IN [min_balance |-> {v \in vals : \A w \in vals : v <= w},
        avg_balance |-> IF B = {} THEN {}
                        ELSE {<<Sum([k \in 1..Len(l) |-> SignedAmount(l[k])]), Cardinality(B)>>},
        max_balance |-> {v \in vals : \A w \in vals : v >= w},
        num_accounts |-> Cardinality(B),
        low10 |-> Lowest(B, BalanceListRows),
        high10 |-> Highest(B, BalanceListRows)]

NotReported ==
    [min_balance |-> {}, avg_balance |-> {}, max_balance |-> {}, num_accounts |-> 0,
     low10 |-> {}, high10 |-> {}]

----------------------------------------------------------------------------
\* main()

\* Mutant: the positive-amounts check is listed before the domain check
checksAmountsFirst ==
    <<"check_table_exists", "check_required_columns", "check_row_count",
      "check_non_positive_amounts", "check_posting_type_values",
      "check_event_posting_consistency", "check_fee_reference_present",
      "check_refund_reference_present", "check_refund_links_to_purchase",
      "check_refund_amount_matches_purchase">>

\* The list `checks` of main(), in its order
checks ==
    <<"check_table_exists", "check_required_columns", "check_row_count",
      "check_posting_type_values", "check_non_positive_amounts",
      "check_event_posting_consistency", "check_fee_reference_present",
      "check_refund_reference_present", "check_refund_links_to_purchase",
      "check_refund_amount_matches_purchase">>

\* f"{check_fn.__name__} (exception)"
ExceptionName(fn) ==
    CASE fn = "check_table_exists" -> "check_table_exists (exception)"
      [] fn = "check_required_columns" -> "check_required_columns (exception)"
      [] fn = "check_row_count" -> "check_row_count (exception)"
      [] fn = "check_posting_type_values" -> "check_posting_type_values (exception)"
      [] fn = "check_non_positive_amounts" -> "check_non_positive_amounts (exception)"
      [] fn = "check_event_posting_consistency" -> "check_event_posting_consistency (exception)"
      [] fn = "check_fee_reference_present" -> "check_fee_reference_present (exception)"
      [] fn = "check_refund_reference_present" -> "check_refund_reference_present (exception)"
      [] fn = "check_refund_links_to_purchase" -> "check_refund_links_to_purchase (exception)"
      [] OTHER -> "check_refund_amount_matches_purchase (exception)"

\* The columns each check's query reads; SHOW TABLES reads no table at all
ColumnsRead(fn) ==
    CASE fn = "check_posting_type_values" -> {"posting_type"}
      [] fn = "check_non_positive_amounts" -> {"amount"}
      [] fn = "check_event_posting_consistency" -> {"event_type", "posting_type"}
      [] fn = "check_fee_reference_present" -> {"event_type", "reference_id"}
      [] fn = "check_refund_reference_present" -> {"event_type", "reference_id"}
      [] fn = "check_refund_links_to_purchase" -> {"event_type", "reference_id", "event_id"}
      [] fn = "check_refund_amount_matches_purchase" ->
            {"event_id", "reference_id", "amount", "user_id", "account_id", "event_type"}
      [] OTHER -> {}

EventTotalsColumns == {"event_type", "posting_type", "amount"}
BalanceColumns == {"account_id", "posting_type", "amount"}

\* What check_fn(con) raises on the store (tbls, cs), NoError when it returns
CheckError(fn, tbls, cs) ==
    IF fn = "check_table_exists" THEN NoError
    ELSE QueryError(tbls, cs, ColumnsRead(fn))

\* What check_fn(con) returns when it does not raise
CheckValue(fn, tbls, cs, l) ==
    CASE fn = "check_table_exists" -> check_table_exists(tbls)
      [] fn = "check_required_columns" -> check_required_columns(cs)
      [] fn = "check_row_count" -> check_row_count(l)
      [] fn = "check_posting_type_values" -> check_posting_type_values(l)
      [] fn = "check_non_positive_amounts" -> check_non_positive_amounts(l)
      [] fn = "check_event_posting_consistency" -> check_event_posting_consistency(l)
      [] fn = "check_fee_reference_present" -> check_fee_reference_present(l)
      [] fn = "check_refund_reference_present" -> check_refund_reference_present(l)
      [] fn = "check_refund_links_to_purchase" -> check_refund_links_to_purchase(l)
      [] OTHER -> check_refund_amount_matches_purchase(l)

\* The body of the loop's try/except: the result of one check
RunCheck(fn, tbls, cs, l) ==
    LET e == CheckError(fn, tbls, cs)
    IN IF e # NoError
       THEN CheckResult(ExceptionName(fn), FALSE, <<e, 0>>, NoPreview)
       ELSE CheckValue(fn, tbls, cs, l)

\* Mutant: only the missing file raises
ConnectRaisesWhenAbsent(file) == file = "absent"

\* connect(DB_PATH): whether it raises
ConnectRaises(file) == file # "ok"

\* try: con = connect(DB_PATH) / except: print, sys.exit(2)
Connect ==
    /\ pc = "connect"
    /\ IF ConnectRaises(dbFile)
       THEN /\ out' = Append(out, "FAILED to connect to DuckDB:")
            /\ exitCode' = {2}
            /\ pc' = "exited"
            /\ con' = con
       ELSE /\ out' = Append(out, "Validation Checks")
            /\ exitCode' = exitCode
            /\ pc' = "checks"
            /\ con' = "open"
    /\ UNCHANGED <<store, i, results, failures, eventTotals, balances, reported>>

\* Mutant: no try/except around check_fn(con)
CheckStepUnisolated ==
    /\ pc = "checks"
    /\ i <= Len(checks)
    /\ IF CheckError(checks[i], tables, cols) # NoError
       THEN /\ out' = Append(out, "Traceback (most recent call last):")
            /\ exitCode' = {1}
            /\ pc' = "exited"
            /\ UNCHANGED <<i, results, failures>>
       ELSE /\ results' = Append(results, CheckValue(checks[i], tables, cols, ledger))
            /\ out' = Append(out, results'[Len(results')].name)
            /\ failures' = IF ~results'[Len(results')].passed THEN failures + 1 ELSE failures
            /\ i' = i + 1
            /\ pc' = IF i = Len(checks) THEN "report_event_totals" ELSE "checks"
            /\ exitCode' = exitCode
    /\ UNCHANGED <<store, con, eventTotals, balances, reported>>

\* One iteration of `for check_fn in checks`
CheckStep ==
    /\ pc = "checks"
    /\ i <= Len(checks)
    /\ results' = Append(results, RunCheck(checks[i], tables, cols, ledger))
    /\ out' = Append(out, results'[Len(results')].name)
    /\ failures' = IF ~results'[Len(results')].passed THEN failures + 1 ELSE failures
    /\ i' = i + 1
    /\ pc' = IF i = Len(checks) THEN "report_event_totals" ELSE "checks"
    /\ UNCHANGED <<store, con, eventTotals, balances, exitCode, reported>>

\* An exception nothing catches: the traceback, exit status 1, the connection
\* left as it is
Uncaught ==
    /\ out' = Append(Append(out, IF pc = "report_event_totals"
                                 THEN "Event Totals (By event_type)"
                                 ELSE "Balance Summary (Derived)"),
                     "Traceback (most recent call last):")
    /\ exitCode' = {1}
    /\ pc' = "exited"
    /\ UNCHANGED <<store, con, i, results, failures, eventTotals, balances, reported>>

ReportEventTotals ==
    /\ pc = "report_event_totals"
    /\ \/ /\ QueryError(tables, cols, EventTotalsColumns) # NoError
          /\ Uncaught
       \/ /\ QueryError(tables, cols, EventTotalsColumns) = NoError
          /\ out' = Append(out, "Event Totals (By event_type)")
          /\ eventTotals' = report_event_totals(ledger)
          /\ pc' = "report_balance_summary"
          /\ UNCHANGED <<store, con, i, results, failures, balances, exitCode, reported>>

ReportBalanceSummary ==
    /\ pc = "report_balance_summary"
    /\ \/ /\ QueryError(tables, cols, BalanceColumns) # NoError
          /\ Uncaught
       \/ /\ QueryError(tables, cols, BalanceColumns) = NoError
          /\ out' = Append(out, "Balance Summary (Derived)")
          /\ balances' = report_balance_summary(ledger)
          /\ pc' = "close"
          /\ UNCHANGED <<store, con, i, results, failures, eventTotals, exitCode, reported>>

\* con.close()
Close ==
    /\ pc = "close"
    /\ con' = "closed"
    /\ pc' = "result"
    /\ UNCHANGED <<store, i, results, failures, out, eventTotals, balances, exitCode, reported>>

\* The Result section: the verdict and sys.exit
Verdict(n) == IF n = 0 THEN 0 ELSE 1

Result ==
    /\ pc = "result"
    /\ IF failures = 0
       THEN /\ out' = Append(Append(out, "Result"), "All validations passed")
            /\ reported' = reported
       ELSE /\ out' = Append(Append(out, "Result"), "Validations failed")
            /\ reported' = {failures}
    /\ exitCode' = {Verdict(failures)}
    /\ pc' = "exited"
    /\ UNCHANGED <<store, con, i, results, failures, eventTotals, balances>>

----------------------------------------------------------------------------
\* The stores main() may be started on

\* Tables whose columns are all there but for at most one
ColumnSets == {RequiredColumnSet} \cup {RequiredColumnSet \ {c} : c \in RequiredColumnSet}

InitStore ==
    \/ /\ dbFile \in {"absent", "corrupt"}
       /\ tables = {}
       /\ cols = {}
       /\ ledger = <<>>
    \/ /\ dbFile = "ok"
       /\ tables = {}
       /\ cols = {}
       /\ ledger = <<>>
    \/ /\ dbFile = "ok"
       /\ tables = {LEDGER_TABLE}
       /\ cols \in ColumnSets
       /\ IsLedger(ledger, MaxStoreRows)

InitMain ==
    /\ pc = "connect"
    /\ con = "none"
    /\ i = 1
    /\ results = <<>>
    /\ failures = 0
    /\ out = <<"LedgerOne - Ledger Validation">>
    /\ eventTotals = {}
    /\ balances = NotReported
    /\ exitCode = {}
    /\ reported = {}

Init == InitStore /\ InitMain

Next ==
    \/ Connect
    \/ CheckStep
    \/ ReportEventTotals
    \/ ReportBalanceSummary
    \/ Close
    \/ Result

Spec == Init /\ [][Next]_vars

----------------------------------------------------------------------------
\* main() from start to exit in one step, on a store whose table and columns
\* are all there

\* The ten results of the loop
MainResults(tbls, cs, l) == [k \in 1..Len(checks) |-> RunCheck(checks[k], tbls, cs, l)]

\* The value of `failures` after the loop
Failures(rs) == Cardinality({k \in 1..Len(rs) : ~rs[k].passed})

Main ==
    /\ pc = "connect"
    /\ ~ConnectRaises(dbFile)
    /\ QueryError(tables, cols, EventTotalsColumns \cup BalanceColumns) = NoError
    /\ results' = MainResults(tables, cols, ledger)
    /\ failures' = Failures(results')
    /\ out' = out \o <<"Validation Checks">>
                  \o [k \in 1..Len(checks) |-> results'[k].name]
                  \o <<"Event Totals (By event_type)", "Balance Summary (Derived)", "Result">>
                  \o <<IF failures' = 0 THEN "All validations passed"
                                        ELSE "Validations failed">>
    /\ reported' = IF failures' = 0 THEN reported ELSE {failures'}
    /\ exitCode' = {Verdict(failures')}
    /\ i' = Len(checks) + 1
    /\ eventTotals' = report_event_totals(ledger)
    /\ balances' = report_balance_summary(ledger)
    /\ con' = "closed"
    /\ pc' = "exited"
    /\ UNCHANGED store

InitChecks ==
    /\ dbFile = "ok"
    /\ tables = {LEDGER_TABLE}
    /\ cols = RequiredColumnSet
    /\ IsLedger(ledger, MaxRows)
    /\ InitMain

SpecChecks == InitChecks /\ [][Main]_vars

----------------------------------------------------------------------------
\* Vocabulary of the properties

Exited == pc = "exited"

\* The connection was obtained
Connected == con # "none"

\* The loop over `checks` is over
LoopDone == Connected /\ pc # "checks"

ResultNames == [k \in 1..Len(results) |-> results[k].name]

\* The functions whose result is a failed CheckResult
FailedChecks == {checks[k] : k \in {j \in 1..Len(results) : ~results[j].passed}}

Printed(line) == \E k \in 1..Len(out) : out[k] = line

\* The store has the ledger table with every required column
WellFormedStore == dbFile = "ok" /\ tables = {LEDGER_TABLE} /\ cols = RequiredColumnSet

----------------------------------------------------------------------------
\* Properties of main() (checked under Spec)

\* Number of failed CheckResults produced
FailedCount == Cardinality({k \in 1..Len(results) : ~results[k].passed})

\* C1: whenever the connection succeeded, main() ends with the verdict: ten
\* results, exit code 0 iff none of them failed, otherwise exit code 1 with the
\* number of failed results reported.
C1_VerdictWheneverConnected ==
    (Exited /\ Connected) =>
        /\ Len(results) = 10
        /\ exitCode = {0} <=> FailedCount = 0
        /\ FailedCount # 0 => exitCode = {1} /\ reported = {FailedCount}

\* C2: when connect() raises, the process exits with code 2 and no check and
\* no report has run; exit code 2 comes from nothing else.
C2_ConnectFailureExitsTwo ==
    /\ dbFile # "ok" =>
          /\ pc \in {"connect", "exited"}
          /\ ~Connected
          /\ results = <<>> /\ failures = 0 /\ i = 1
          /\ eventTotals = {} /\ balances = NotReported
          /\ ~Printed("Validation Checks")
          /\ ~Printed("Event Totals (By event_type)")
          /\ ~Printed("Balance Summary (Derived)")
          /\ Exited => exitCode = {2}
    /\ exitCode = {2} => dbFile # "ok" /\ Exited

C2_Witness == Exited /\ dbFile = "absent" /\ exitCode = {2} /\ results = <<>>

\* C3: a check that raises becomes a failed CheckResult that carries the error
\* text, every check of the list is run whichever raised, and the loop ends
\* with exactly ten results, one per check.
C3_IsolateAndContinue ==
    /\ Connected => Len(results) = i - 1
    /\ LoopDone => Len(results) = 10
    /\ \A k \in 1..Len(results) :
          LET e == CheckError(checks[k], tables, cols)
          IN IF e # NoError
             THEN /\ results[k].name = ExceptionName(checks[k])
                  /\ ~results[k].passed
                  /\ results[k].details[1] = e
             ELSE results[k] = CheckValue(checks[k], tables, cols, ledger)

\* A check raised and a later check returned a passing result
C3_Witness ==
    /\ LoopDone
    /\ \E j, k \in 1..Len(results) :
          /\ j < k
          /\ CheckError(checks[j], tables, cols) # NoError
          /\ CheckError(checks[k], tables, cols) = NoError
          /\ results[k].passed

\* C4: with the connection obtained and the ledger table missing or short of a
\* required column, the run completes (checks, both reports, close) and ends
\* at the verdict with exit code 1 and the failure count.
C4_StructuralFailureReachesVerdict ==
    (Exited /\ dbFile = "ok" /\ (LEDGER_TABLE \notin tables \/ cols # RequiredColumnSet)) =>
        /\ Len(results) = 10
        /\ Printed("Event Totals (By event_type)")
        /\ Printed("Balance Summary (Derived)")
        /\ con = "closed"
        /\ Printed("Result")
        /\ exitCode = {1}
        /\ reported = {FailedCount}

\* C5: on a ledger table with every required column and no row, the row-count
\* check fails with "Row count = 0", the nine other checks pass, the failure
\* count is 1 and the exit code is 1.
C5_EmptyLedger ==
    (Exited /\ WellFormedStore /\ ledger = <<>>) =>
        /\ Len(results) = 10
        /\ results[3].name = "Ledger has at least 1 row"
        /\ ~results[3].passed
        /\ results[3].details = <<"Row count = ", 0>>
        /\ \A k \in (1..10) \ {3} : results[k].passed
        /\ FailedChecks = {"check_row_count"}
        /\ failures = 1 /\ reported = {1}
        /\ exitCode = {1}

C5_Witness == Exited /\ WellFormedStore /\ ledger = <<>> /\ exitCode = {1}

\* The order in which the claim lists the checks
ListedOrder ==
    <<"check_table_exists", "check_required_columns", "check_row_count",
      "check_non_positive_amounts", "check_posting_type_values",
      "check_event_posting_consistency", "check_fee_reference_present",
      "check_refund_reference_present", "check_refund_links_to_purchase",
      "check_refund_amount_matches_purchase">>

\* The order of the amended claim: the posting-type domain check comes before
\* the positive-amounts check
RunOrder ==
    <<"check_table_exists", "check_required_columns", "check_row_count",
      "check_posting_type_values", "check_non_positive_amounts",
      "check_event_posting_consistency", "check_fee_reference_present",
      "check_refund_reference_present", "check_refund_links_to_purchase",
      "check_refund_amount_matches_purchase">>

\* The k-th result is that of the k-th function of `order`
ResultsFollow(order) ==
    \A k \in 1..Len(results) :
        results[k].name \in {ExceptionName(order[k]),
                             CheckValue(order[k], tables, cols, ledger).name}

\* Each result is printed in its turn, after the header and before any report
EmittedInTurn ==
    Connected =>
        /\ i = Len(results) + 1
        /\ Len(out) >= 2 + Len(results)
        /\ SubSeq(out, 3, 2 + Len(results)) = ResultNames
        /\ Len(out) > 2 + Len(results) => Len(results) = 10

\* C10 as stated: the results come in the listed order (positive amounts
\* before the posting-type domain), each printed before the next check and
\* before the reports.
C10_ListedOrder == ResultsFollow(ListedOrder) /\ EmittedInTurn

\* C10 amended: the results come in the order table exists, required columns,
\* non-empty, posting-type domain, positive amounts, consistency, FEE
\* reference, REFUND reference, resolution, amount equality; each is printed
\* before the next check and before the reports.
C10_RunOrder == ResultsFollow(RunOrder) /\ EmittedInTurn

C10_Witness ==
    /\ Exited /\ con = "closed"
    /\ Printed("Balance Summary (Derived)")
    /\ results[4].name = "posting_type only contains CREDIT/DEBIT"
    /\ results[5].name = "All amounts are positive (amount > 0)"

----------------------------------------------------------------------------
\* The ledger invariants, stated on the rows themselves

Allowed == {"CREDIT", "DEBIT"}
Mapped == {"DEPOSIT", "PURCHASE", "FEE", "REFUND"}

\* Row r is a REFUND that some PURCHASE row's event_id answers
Resolves(l, r) ==
    \E j \in 1..Len(l) : l[j].event_type = "PURCHASE" /\ l[j].event_id = r.reference_id

PositiveAmounts(l) == \A k \in 1..Len(l) : l[k].amount > 0
DomainClosed(l) == \A k \in 1..Len(l) : l[k].posting_type \in Allowed
MappingHolds(l) ==
    \A k \in 1..Len(l) :
        /\ l[k].event_type = "DEPOSIT" => l[k].posting_type = "CREDIT"
        /\ l[k].event_type = "PURCHASE" => l[k].posting_type = "DEBIT"
        /\ l[k].event_type = "FEE" => l[k].posting_type = "DEBIT"
        /\ l[k].event_type = "REFUND" => l[k].posting_type = "CREDIT"
ReferencesPresent(l) ==
    \A k \in 1..Len(l) : l[k].event_type \in {"FEE", "REFUND"} => l[k].reference_id # Null
RefundsResolve(l) ==
    \A k \in 1..Len(l) :
        l[k].event_type = "REFUND" => l[k].reference_id # Null /\ Resolves(l, l[k])
RefundAmountsEqual(l) ==
    \A k, j \in 1..Len(l) :
        (/\ l[k].event_type = "REFUND"
         /\ l[j].event_type = "PURCHASE"
         /\ l[k].reference_id # Null
         /\ l[j].event_id = l[k].reference_id) => l[k].amount = l[j].amount

ValidLedger(l) ==
    /\ l # <<>>
    /\ PositiveAmounts(l) /\ DomainClosed(l) /\ MappingHolds(l)
    /\ ReferencesPresent(l) /\ RefundsResolve(l) /\ RefundAmountsEqual(l)

RemoveAt(l, k) == SubSeq(l, 1, k - 1) \o SubSeq(l, k + 1, Len(l))

----------------------------------------------------------------------------
\* Properties of the checks (checked under SpecChecks)

\* Row k is a posting added to a valid ledger, itself valid but for a
\* posting_type outside {CREDIT, DEBIT}
AddedOutsideDomain(k) ==
    LET t == ledger[k].event_type
        intended == IF t \in {"PURCHASE", "FEE"} THEN "DEBIT" ELSE "CREDIT"
    IN /\ ledger[k].posting_type \notin Allowed
       /\ ValidLedger(RemoveAt(ledger, k))
       /\ ValidLedger([ledger EXCEPT ![k].posting_type = intended])

\* C6 as stated: such a posting, of any event_type, fails the posting-type
\* domain check and no other check.
C6_OnlyDomainFails ==
    Exited =>
        \A k \in 1..Len(ledger) :
            AddedOutsideDomain(k) => FailedChecks = {"check_posting_type_values"}

\* C6 amended: such a posting fails the posting-type domain check; when its
\* event_type is one of DEPOSIT, PURCHASE, FEE, REFUND it also fails the
\* event/posting consistency check, when its event_type is outside the mapping
\* it fails the domain check alone; no further check fails.
C6_DomainAndConsistencyFail ==
    Exited =>
        \A k \in 1..Len(ledger) :
            AddedOutsideDomain(k) =>
                FailedChecks = {"check_posting_type_values"} \cup
                               (IF ledger[k].event_type \in Mapped
                                THEN {"check_event_posting_consistency"} ELSE {})

C6_Witness ==
    /\ Exited
    /\ \E k \in 1..Len(ledger) : AddedOutsideDomain(k) /\ ledger[k].event_type \in Mapped
    /\ \A k \in 1..Len(ledger) :
          ledger[k].posting_type \notin Allowed => ledger[k].event_type \in Mapped
    /\ FailedChecks = {"check_posting_type_values", "check_event_posting_consistency"}

\* Row k is a REFUND whose non-null reference_id is no row's event_id
Dangling(k) ==
    /\ ledger[k].event_type = "REFUND"
    /\ ledger[k].reference_id # Null
    /\ \A j \in 1..Len(ledger) : ledger[j].event_id # ledger[k].reference_id

\* The ledger holds such a REFUND and is valid otherwise
ValidButDangling ==
    /\ \E k \in 1..Len(ledger) : Dangling(k)
    /\ PositiveAmounts(ledger) /\ DomainClosed(ledger) /\ MappingHolds(ledger)
    /\ ReferencesPresent(ledger) /\ RefundAmountsEqual(ledger)
    /\ \A k \in 1..Len(ledger) :
          ledger[k].event_type = "REFUND" => Dangling(k) \/ Resolves(ledger, ledger[k])

C8_ResolutionOverNonNull ==
    Exited =>
        (results[9].passed <=>
            \A k \in 1..Len(ledger) :
                (ledger[k].event_type = "REFUND" /\ ledger[k].reference_id # Null)
                    => Resolves(ledger, ledger[k]))

\* C8 amended: the resolution check passes iff every REFUND has a non-null
\* reference_id that equals the event_id of some PURCHASE; a REFUND with a
\* null reference_id counts as unmatched and fails this check too.
C8_ResolutionOverAllRefunds ==
    Exited => (results[9].passed <=> RefundsResolve(ledger))

\* A REFUND with a null reference_id, every other REFUND resolving
C8_Witness ==
    /\ Exited
    /\ \E k \in 1..Len(ledger) :
          ledger[k].event_type = "REFUND" /\ ledger[k].reference_id = Null
    /\ \A k \in 1..Len(ledger) :
          (ledger[k].event_type = "REFUND" /\ ledger[k].reference_id # Null)
              => Resolves(ledger, ledger[k])
    /\ ~results[9].passed
    /\ ~results[8].passed

\* Sums of the amounts of account a's rows, by posting_type
CreditsOf(a) ==
    SumSeq([k \in 1..Len(ledger) |->
              IF ledger[k].account_id = a /\ ledger[k].posting_type = "CREDIT"
              THEN ledger[k].amount ELSE 0])

DebitsOf(a) ==
    SumSeq([k \in 1..Len(ledger) |->
              IF ledger[k].account_id = a /\ ledger[k].posting_type = "DEBIT"
              THEN ledger[k].amount ELSE 0])

NonCreditsOf(a) ==
    SumSeq([k \in 1..Len(ledger) |->
              IF ledger[k].account_id = a /\ ledger[k].posting_type # "CREDIT"
              THEN ledger[k].amount ELSE 0])

\* The summary lists every account of the ledger
EveryAccountListed ==
    {b.account_id : b \in balances.low10} = {ledger[k].account_id : k \in 1..Len(ledger)}

\* C9 as stated: the balance the summary derives for an account is the sum of
\* its CREDIT amounts minus the sum of its DEBIT amounts; other posting types
\* add to neither sum.
C9_BalanceIsCreditsMinusDebits ==
    Exited =>
        /\ EveryAccountListed
        /\ \A b \in balances.low10 \cup balances.high10 :
              b.balance = CreditsOf(b.account_id) - DebitsOf(b.account_id)

\* C9 amended: the balance the summary derives for an account is the sum of
\* its CREDIT amounts minus the sum of the amounts of all its other postings,
\* so a posting that is neither CREDIT nor DEBIT is subtracted like a DEBIT;
\* it is credits minus debits when every posting_type is CREDIT or DEBIT.
C9_BalanceIsCreditsMinusOthers ==
    Exited =>
        /\ EveryAccountListed
        /\ \A b \in balances.low10 \cup balances.high10 :
              /\ b.balance = CreditsOf(b.account_id) - NonCreditsOf(b.account_id)
              /\ DomainClosed(ledger) =>
                    b.balance = CreditsOf(b.account_id) - DebitsOf(b.account_id)

\* An account with a CREDIT row and a row that is neither CREDIT nor DEBIT
C9_Witness ==
    /\ Exited
    /\ \E j, k \in 1..Len(ledger) :
          /\ ledger[j].account_id = ledger[k].account_id
          /\ ledger[j].posting_type = "CREDIT"
          /\ ledger[k].posting_type \notin Allowed
          /\ ledger[k].amount > 0
          /\ \E b \in balances.low10 :
                /\ b.account_id = ledger[k].account_id
                /\ b.balance = ledger[j].amount - ledger[k].amount

====
